---- MODULE Spec2Model ----
(***************************************************************************)
(* A model of the data-quality regression suite: the check evaluators of   *)
(* dq_checks.py, the table run coordinator, the result aggregator and the  *)
(* batch entry point of dq_runner.py.                                      *)
(*                                                                         *)
(* A snapshot (pandas DataFrame) is a sequence of rows; a row maps each    *)
(* column of the schema to a cell.  A cell is a record [k, n, s]: k is the *)
(* Python type of the value (null, bool, int, str, ts), n its number       *)
(* (bool: 0/1, int: the value, ts: seconds since the epoch) and s its      *)
(* characters (str only), one one-character string per character.          *)
(***************************************************************************)
EXTENDS Integers, Sequences, FiniteSets, TLC

(***************************************************************************)
(* Bounds of the model.                                                    *)
(***************************************************************************)
MaxRows == 3
MaxClock == 3
MaxRuns == 2
MaxChecks == 160
MaxTableChecks == 2

(***************************************************************************)
(* Cells.                                                                  *)
(***************************************************************************)
Null == [k |-> "null", n |-> 0, s |-> <<>>]
B(b) == [k |-> "bool", n |-> IF b THEN 1 ELSE 0, s |-> <<>>]
I(n) == [k |-> "int", n |-> n, s |-> <<>>]
S(s) == [k |-> "str", n |-> 0, s |-> s]
T(n) == [k |-> "ts", n |-> n, s |-> <<>>]

isnull(c) == c.k = "null"
notnull(c) == ~isnull(c)

\* Python's ==, as isin and Series.__eq__ apply it to two non-null objects:
\* bool is a subclass of int, so True == 1 and False == 0.
PyEq(a, b) ==
    CASE a.k \in {"bool", "int"} /\ b.k \in {"bool", "int"} -> a.n = b.n
      [] a.k = "str" /\ b.k = "str" -> a.s = b.s
      [] a.k = "ts" /\ b.k = "ts" -> a.n = b.n
      [] a.k = "null" /\ b.k = "null" -> TRUE
      [] OTHER -> FALSE

\* Series.isin(values)
isin(c, values) == \E v \in values : PyEq(c, v)

Digits == <<"0", "1", "2", "3", "4", "5", "6", "7", "8", "9">>

RECURSIVE NatStr(_)
NatStr(n) == IF n < 10 THEN <<Digits[n + 1]>>
             ELSE NatStr(n \div 10) \o <<Digits[(n % 10) + 1]>>

\* Series.astype(str) on one cell: str(value)
StrOf(c) ==
    CASE c.k = "str" -> c.s
      [] c.k = "int" -> IF c.n < 0 THEN <<"-">> \o NatStr(-c.n) ELSE NatStr(c.n)
      [] c.k = "bool" -> IF c.n = 1 THEN <<"T", "r", "u", "e">>
                         ELSE <<"F", "a", "l", "s", "e">>
      [] c.k = "ts" -> <<"1", "9", "7", "0", "-", "0", "1", "-", "0", "1", " ",
                         "0", "0", ":", "0", "0", ":">> \o
                       (IF c.n < 10 THEN <<"0">> ELSE <<>>) \o NatStr(c.n)
      [] OTHER -> <<"N", "o", "n", "e">>

\* re.match of a compiled pattern: the pattern is a sequence of character
\* classes, optionally closed by "$"; re.match anchors at the start only.
NoPattern == [atoms |-> <<>>, end |-> FALSE]
str_match(s, p) ==
    /\ Len(s) >= Len(p.atoms)
    /\ \A i \in 1..Len(p.atoms) : s[i] \in p.atoms[i]
    /\ p.end => Len(s) = Len(p.atoms)

(***************************************************************************)
(* The schema and the rows snapshots are drawn from.                       *)
(***************************************************************************)
Columns == {"id", "amount", "status", "flag", "opened_at"}

Row(id, amount, status, flag, opened) ==
    [id |-> id, amount |-> amount, status |-> status, flag |-> flag,
     opened_at |-> opened]

ACTIVE == <<"A", "C", "T", "I", "V", "E">>
CLOSED == <<"C", "L", "O", "S", "E", "D">>

RowA == Row(I(100), I(5), S(ACTIVE), B(TRUE), T(1))
RowB == Row(I(100), I(-1), S(ACTIVE \o <<" ">>), I(1), T(3))
RowC == Row(I(7), Null, Null, Null, Null)
RowD == Row(Null, I(12), S(CLOSED), S(<<"t", "r", "u", "e">>),
            S(<<"s", "o", "o", "n">>))
RowE == Row(I(7), I(5), S(<<"X", "X">>), I(0), T(2))
RowF == Row(I(3), Null, S(CLOSED), B(FALSE), T(2))
RowG == Row(I(3), I(7), Null, I(2), T(1))

RowPool == {RowA, RowB, RowC, RowD, RowE, RowF, RowG}

RECURSIVE SeqsUpTo(_, _)
SeqsUpTo(pool, n) ==
    IF n = 0 THEN {<<>>}
    ELSE LET shorter == SeqsUpTo(pool, n - 1)
         IN shorter \cup {Append(q, r) : q \in shorter, r \in pool}

(***************************************************************************)
(* Check specifications (one entry of table_checks or of a column's        *)
(* checks): "type" and the parameter keys the entry holds.                 *)
(***************************************************************************)
Chk(type) ==
    [type |-> type, keys |-> {}, min |-> 0, max |-> 0, values |-> {},
     pattern |-> NoPattern, when_column |-> "", when_value |-> Null,
     required_column |-> ""]

WithMin(c, v) == [c EXCEPT !.keys = @ \cup {"min"}, !.min = v]
WithMax(c, v) == [c EXCEPT !.keys = @ \cup {"max"}, !.max = v]
WithValues(c, vs) == [c EXCEPT !.keys = @ \cup {"values"}, !.values = vs]
WithPattern(c, p) == [c EXCEPT !.keys = @ \cup {"pattern"}, !.pattern = p]
WithWhen(c, wc, wv, rc) ==
    [c EXCEPT !.keys = @ \cup {"when_column", "when_value", "required_column"},
              !.when_column = wc, !.when_value = wv, !.required_column = rc]

\* spec.get(key, default) for the numeric parameters
GetMin(spec, default) == IF "min" \in spec.keys THEN spec.min ELSE default

(***************************************************************************)
(* Outcomes: an evaluator returns a CheckResult or raises.  df[mask], the   *)
(* rows a mask selects in the snapshot's order, is SelectSeq.               *)
(***************************************************************************)
NoColumn == "None"
NoDetails == [kind |-> "", nums |-> <<>>, vals |-> {}, pat |-> NoPattern,
              cols |-> <<>>]
Details(kind, nums) == [NoDetails EXCEPT !.kind = kind, !.nums = nums]

\* failed_df: a DataFrame, or None when the evaluator passes none
NoneDF == [frame |-> FALSE, rows |-> <<>>]
Frame(rows) == [frame |-> TRUE, rows |-> rows]

\* "no more than one failed row" in place of "no failed row"
EmptyOffByOne(rows) == Len(rows) <= 1 \/ Cardinality(Columns) = 0

\* DataFrame.empty: any axis of length 0
Empty(rows) == Len(rows) = 0 \/ Cardinality(Columns) = 0

SampleCap == 100

\* DataFrame.head(n)
head(rows, n) == SubSeq(rows, 1, IF Len(rows) < n THEN Len(rows) ELSE n)

failed_sampleUncapped(failed_df) ==
    IF failed_df.frame /\ ~Empty(failed_df.rows) THEN failed_df.rows ELSE <<>>

failed_sample(failed_df) ==
    IF failed_df.frame /\ ~Empty(failed_df.rows)
    THEN head(failed_df.rows, SampleCap) ELSE <<>>

failed_count(failed_df) == IF ~failed_df.frame THEN 0 ELSE Len(failed_df.rows)

_result(passed, check_name, level, table, column, details, failed_df) ==
    [passed |-> passed, check_name |-> check_name, level |-> level,
     table |-> table, column |-> column, details |-> details,
     failed_sample |-> failed_sample(failed_df),
     failed_count |-> failed_count(failed_df)]

NoResult == _result(FALSE, "", "", "", NoColumn, NoDetails, NoneDF)
Ok(r) == [err |-> "none", res |-> r]
Raise(e) == [err |-> e, res |-> NoResult]

(***************************************************************************)
(* Table-scope evaluators.                                                 *)
(***************************************************************************)
check_row_count_min(df, table, spec) ==
    LET min_rows == GetMin(spec, 1)
        ok == Len(df) >= min_rows
    IN Ok(_result(ok, "row_count_min", "table", table, NoColumn,
                  Details("rows,min", <<Len(df), min_rows>>), NoneDF))

\* The default of "max" is 10**12, above every row count a snapshot of the
\* model has: without "max" the upper comparison is len(df) <= 10**12.
LeqTenPow12(n) ==
    \/ n \div 1000000 < 1000000
    \/ (n \div 1000000 = 1000000 /\ n % 1000000 = 0)

check_row_count_between(df, table, spec) ==
    LET min_rows == GetMin(spec, 0)
        hasMax == "max" \in spec.keys
        ok == /\ Len(df) >= min_rows
              /\ IF hasMax THEN Len(df) <= spec.max ELSE LeqTenPow12(Len(df))
    IN Ok(_result(ok, "row_count_between", "table", table, NoColumn,
                  IF hasMax
                  THEN Details("rows,range", <<Len(df), min_rows, spec.max>>)
                  ELSE Details("rows,range,10**12", <<Len(df), min_rows>>),
                  NoneDF))

Range(s) == {s[i] : i \in 1..Len(s)}

pk_not_null_mask(r, pk_cols) == \E i \in 1..Len(pk_cols) : isnull(r[pk_cols[i]])

pk_not_null_failed(df, pk_cols) ==
    SelectSeq(df, LAMBDA r : pk_not_null_mask(r, pk_cols))

check_pk_not_null(df, table, pk_cols) ==
    IF ~(Range(pk_cols) \subseteq Columns) THEN Raise("KeyError")
    ELSE LET failed == pk_not_null_failed(df, pk_cols)
             ok == Empty(failed)
         IN Ok(_result(ok, "pk_not_null", "table", table, NoColumn,
                       NoDetails, Frame(failed)))

KeyOf(r, pk_cols) == [i \in 1..Len(pk_cols) |-> r[pk_cols[i]]]

\* df[mask] for a mask given by row position
Masked(df, mask) ==
    LET tagged == [i \in 1..Len(df) |-> [row |-> df[i], keep |-> mask[i]]]
        kept == SelectSeq(tagged, LAMBDA e : e.keep)
    IN [i \in 1..Len(kept) |-> kept[i].row]

Keys(df, pk_cols) == {KeyOf(df[i], pk_cols) : i \in 1..Len(df)}

\* the keys more than one row holds
RepeatedKeys(df, pk_cols) ==
    {k \in Keys(df, pk_cols) :
        Cardinality({i \in 1..Len(df) : KeyOf(df[i], pk_cols) = k}) > 1}

MarkRepeated(df, pk_cols, repeated) ==
    [i \in 1..Len(df) |-> KeyOf(df[i], pk_cols) \in repeated]

\* DataFrame.duplicated(subset, keep="first"): only the later rows of a key
duplicatedKeepFirst(df, pk_cols) ==
    [i \in 1..Len(df) |->
        \E j \in 1..(i - 1) : KeyOf(df[j], pk_cols) = KeyOf(df[i], pk_cols)]

\* DataFrame.duplicated(subset, keep=False): a row is marked when another
\* row holds the same values in the subset; missing values equal each other.
duplicated(df, pk_cols) == MarkRepeated(df, pk_cols, RepeatedKeys(df, pk_cols))

Alphabet ==
    <<" ", "-", "0", "1", "2", "3", "4", "5", "6", "7", "8", "9", ":",
      "A", "B", "C", "D", "E", "F", "G", "H", "I", "J", "K", "L", "M",
      "N", "O", "P", "Q", "R", "S", "T", "U", "V", "W", "X", "Y", "Z",
      "a", "b", "c", "d", "e", "f", "g", "h", "i", "j", "k", "l", "m",
      "n", "o", "p", "q", "r", "s", "t", "u", "v", "w", "x", "y", "z">>
Ord(ch) == CHOOSE i \in 1..Len(Alphabet) : Alphabet[i] = ch

RECURSIVE StrLess(_, _)
StrLess(a, b) ==
    IF Len(b) = 0 THEN FALSE
    ELSE IF Len(a) = 0 THEN TRUE
    ELSE IF Ord(a[1]) # Ord(b[1]) THEN Ord(a[1]) < Ord(b[1])
    ELSE StrLess(Tail(a), Tail(b))

\* The order sort_values puts two cells of one column in: ascending, the
\* missing values last (na_position="last").
CellLess(a, b) ==
    CASE isnull(a) -> FALSE
      [] isnull(b) -> TRUE
      [] a.k = "str" /\ b.k = "str" -> StrLess(a.s, b.s)
      [] OTHER -> a.n < b.n

RECURSIVE KeyLessFrom(_, _, _)
KeyLessFrom(ka, kb, i) ==
    IF i > Len(ka) THEN FALSE
    ELSE IF CellLess(ka[i], kb[i]) THEN TRUE
    ELSE IF CellLess(kb[i], ka[i]) THEN FALSE
    ELSE KeyLessFrom(ka, kb, i + 1)

KeyLess(ka, kb) == KeyLessFrom(ka, kb, 1)

RECURSIVE Ascending(_)
\* the keys of a set, smallest first
Ascending(keys) ==
    IF keys = {} THEN <<>>
    ELSE LET least == CHOOSE k \in keys : \A o \in keys : ~KeyLess(o, k)
         IN <<least>> \o Ascending(keys \ {least})

RECURSIVE Grouped(_, _, _)
\* the rows of each key of `order` in turn, each group in the rows' order
Grouped(rows, by, order) ==
    IF order = <<>> THEN <<>>
    ELSE SelectSeq(rows, LAMBDA r : KeyOf(r, by) = Head(order))
         \o Grouped(rows, by, Tail(order))

\* DataFrame.sort_values(by): ascending by the columns of `by` in turn, the
\* rows of equal key in their previous order.
sort_values(rows, by) == Grouped(rows, by, Ascending(Keys(rows, by)))

\* whether < orders the cells of the column: not between a string and a number
Comparable(rows, col) ==
    LET kinds == {rows[i][col].k : i \in 1..Len(rows)} \ {"null"}
    IN "str" \in kinds => kinds = {"str"}

dupeRows(df, pk_cols) == Masked(df, duplicated(df, pk_cols))

pk_unique_failed(df, pk_cols) == sort_values(dupeRows(df, pk_cols), pk_cols)

check_pk_unique(df, table, pk_cols) ==
    IF ~(Range(pk_cols) \subseteq Columns) THEN Raise("KeyError")
    ELSE LET marked == dupeRows(df, pk_cols)
         IN IF \E i \in 1..Len(pk_cols) : ~Comparable(marked, pk_cols[i])
            THEN Raise("TypeError")
            ELSE LET dupes == pk_unique_failed(df, pk_cols)
                     ok == Empty(dupes)
                 IN Ok(_result(ok, "pk_unique", "table", table, NoColumn,
                               NoDetails, Frame(dupes)))

(***************************************************************************)
(* Column-scope evaluators.                                                *)
(***************************************************************************)
not_null_failed(df, col) == SelectSeq(df, LAMBDA r : isnull(r[col]))

check_not_null(df, table, col, spec) ==
    IF col \notin Columns THEN Raise("KeyError")
    ELSE LET failed == not_null_failed(df, col)
             ok == Empty(failed)
         IN Ok(_result(ok, "not_null", "column", table, col, NoDetails,
                       Frame(failed)))

\* sorted(allowed) orders the values with <, which Python defines between
\* two numbers and between two strings only.
Sortable(vs) ==
    \A a, b \in vs : a # b => /\ notnull(a) /\ notnull(b)
                              /\ (a.k = "str") <=> (b.k = "str")
                              /\ (a.k = "ts") <=> (b.k = "ts")

in_set_maskNoNullGuard(c, allowed) == ~isin(c, allowed)

in_set_mask(c, allowed) == ~isin(c, allowed) /\ notnull(c)

in_set_failed(df, col, allowed) ==
    SelectSeq(df, LAMBDA r : in_set_mask(r[col], allowed))

check_in_set(df, table, col, spec) ==
    IF "values" \notin spec.keys THEN Raise("KeyError")
    ELSE IF col \notin Columns THEN Raise("KeyError")
    ELSE LET allowed == spec.values
             failed == in_set_failed(df, col, allowed)
             ok == Empty(failed)
         IN IF ~Sortable(allowed) THEN Raise("TypeError")
            ELSE Ok(_result(ok, "in_set", "column", table, col,
                            [NoDetails EXCEPT !.kind = "allowed", !.vals = allowed],
                            Frame(failed)))

regex_failed(df, col, pattern) ==
    SelectSeq(df, LAMBDA r : notnull(r[col]) /\ ~str_match(StrOf(r[col]), pattern))

check_regex(df, table, col, spec) ==
    IF "pattern" \notin spec.keys THEN Raise("KeyError")
    ELSE IF col \notin Columns THEN Raise("KeyError")
    ELSE LET pattern == spec.pattern
             failed == regex_failed(df, col, pattern)
             ok == Empty(failed)
         IN Ok(_result(ok, "regex", "column", table, col,
                       [NoDetails EXCEPT !.kind = "pattern", !.pat = pattern],
                       Frame(failed)))

length_between_failed(df, col, min_len, max_len) ==
    SelectSeq(df, LAMBDA r :
        notnull(r[col]) /\ (Len(StrOf(r[col])) < min_len
                            \/ Len(StrOf(r[col])) > max_len))

check_length_between(df, table, col, spec) ==
    IF col \notin Columns THEN Raise("KeyError")
    ELSE LET min_len == GetMin(spec, 0)
             max_len == IF "max" \in spec.keys THEN spec.max ELSE 1000000
             failed == length_between_failed(df, col, min_len, max_len)
             ok == Empty(failed)
         IN Ok(_result(ok, "length_between", "column", table, col,
                       Details("range", <<min_len, max_len>>), Frame(failed)))

\* df[col] < min_val and df[col] > max_val compare every cell of the column
\* with a number; Python raises on a string or a timestamp.
Numeric(df, col) ==
    \A i \in 1..Len(df) : df[i][col].k \in {"null", "bool", "int"}

numeric_min_failed(df, col, min_val) ==
    SelectSeq(df, LAMBDA r : notnull(r[col]) /\ r[col].n < min_val)

check_numeric_min(df, table, col, spec) ==
    IF col \notin Columns THEN Raise("KeyError")
    ELSE IF ~Numeric(df, col) THEN Raise("TypeError")
    ELSE LET min_val == GetMin(spec, 0)
             failed == numeric_min_failed(df, col, min_val)
             ok == Empty(failed)
         IN Ok(_result(ok, "numeric_min", "column", table, col,
                       Details("min", <<min_val>>), Frame(failed)))

numeric_max_failed(df, col, spec) ==
    SelectSeq(df, LAMBDA r :
        /\ notnull(r[col])
        /\ IF "max" \in spec.keys THEN r[col].n > spec.max
           ELSE ~LeqTenPow12(r[col].n))

check_numeric_max(df, table, col, spec) ==
    IF col \notin Columns THEN Raise("KeyError")
    ELSE IF ~Numeric(df, col) THEN Raise("TypeError")
    ELSE LET hasMax == "max" \in spec.keys
             failed == numeric_max_failed(df, col, spec)
             ok == Empty(failed)
         IN Ok(_result(ok, "numeric_max", "column", table, col,
                       IF hasMax THEN Details("max", <<spec.max>>)
                       ELSE Details("max=10**12", <<>>),
                       Frame(failed)))

\* pd.to_datetime(cell, errors="coerce", utc=True): a timestamp, or NaT for a
\* missing or unparsable value.  An integer is a count of nanoseconds since
\* the epoch, which is second 0 (or the second before it).
NaT == [nat |-> TRUE, t |-> 0]
to_datetime(c) ==
    CASE c.k = "ts" -> [nat |-> FALSE, t |-> c.n]
      [] c.k = "int" -> [nat |-> FALSE, t |-> IF c.n >= 0 THEN 0 ELSE -1]
      [] OTHER -> NaT

timestamp_mask(ser, clock) == ~ser.nat /\ ser.t > clock

timestamp_failed(df, col, clock) ==
    SelectSeq(df, LAMBDA r : timestamp_mask(to_datetime(r[col]), clock))

check_timestamp_not_in_future(df, table, col, spec, clock) ==
    IF col \notin Columns THEN Raise("KeyError")
    ELSE LET failed == timestamp_failed(df, col, clock)
             ok == Empty(failed)
         IN Ok(_result(ok, "timestamp_not_in_future", "column", table, col,
                       NoDetails, Frame(failed)))

boolean_mask(c) == notnull(c) /\ ~isin(c, {B(TRUE), B(FALSE)})

boolean_failed(df, col) == SelectSeq(df, LAMBDA r : boolean_mask(r[col]))

check_boolean(df, table, col, spec) ==
    IF col \notin Columns THEN Raise("KeyError")
    ELSE LET failed == boolean_failed(df, col)
             ok == Empty(failed)
         IN Ok(_result(ok, "boolean", "column", table, col, NoDetails,
                       Frame(failed)))

\* Series == scalar: never true of a missing value
SeriesEq(c, v) == notnull(c) /\ notnull(v) /\ PyEq(c, v)

conditional_required_failed(df, spec) ==
    SelectSeq(df, LAMBDA r : /\ SeriesEq(r[spec.when_column], spec.when_value)
                         /\ isnull(r[spec.required_column]))

check_conditional_required(df, table, col, spec) ==
    IF ~({"when_column", "when_value", "required_column"} \subseteq spec.keys)
    THEN Raise("KeyError")
    ELSE IF ~({spec.when_column, spec.required_column} \subseteq Columns)
    THEN Raise("KeyError")
    ELSE LET failed == conditional_required_failed(df, spec)
             ok == Empty(failed)
         IN Ok(_result(ok, "conditional_required", "column", table,
                       spec.required_column,
                       [NoDetails EXCEPT !.kind = "when",
                                         !.vals = {spec.when_value},
                                         !.cols = <<spec.when_column,
                                                    spec.required_column>>],
                       Frame(failed)))

(***************************************************************************)
(* The check registry.                                                     *)
(***************************************************************************)
TableKinds == {"row_count_min", "row_count_between"}
ColumnKinds == {"not_null", "in_set", "regex", "length_between", "numeric_min",
                "numeric_max", "timestamp_not_in_future", "boolean",
                "conditional_required"}
PkKinds == {"pk_not_null", "pk_unique"}

\* kind -> (level, evaluator); the evaluator is named by its kind
CHECK_DISPATCH ==
    [kind \in TableKinds \cup ColumnKinds |->
        [level |-> IF kind \in TableKinds THEN "table" ELSE "column",
         fn |-> kind]]

\* fn(df, table_name, spec) for the evaluator registered under a table kind
CallTable(kind, df, table, spec) ==
    CASE kind = "row_count_min" -> check_row_count_min(df, table, spec)
      [] kind = "row_count_between" -> check_row_count_between(df, table, spec)

\* fn(df, table_name, col, spec) for the evaluator registered under a column kind
CallColumn(kind, df, table, col, spec, clock) ==
    CASE kind = "not_null" -> check_not_null(df, table, col, spec)
      [] kind = "in_set" -> check_in_set(df, table, col, spec)
      [] kind = "regex" -> check_regex(df, table, col, spec)
      [] kind = "length_between" -> check_length_between(df, table, col, spec)
      [] kind = "numeric_min" -> check_numeric_min(df, table, col, spec)
      [] kind = "numeric_max" -> check_numeric_max(df, table, col, spec)
      [] kind = "timestamp_not_in_future" ->
            check_timestamp_not_in_future(df, table, col, spec, clock)
      [] kind = "boolean" -> check_boolean(df, table, col, spec)
      [] kind = "conditional_required" ->
            check_conditional_required(df, table, col, spec)

(***************************************************************************)
(* Python floats (IEEE 754 binary64), for pass_rate.  A non-negative value *)
(* is [m, e]: the integer m times 2^e, m given by its base-1024 digits,    *)
(* least significant first.  Every operation computes the exact result and *)
(* rounds it to the 53-bit mantissa, ties to even, as the hardware does.   *)
(***************************************************************************)
MantissaBits == 53

RECURSIVE LimbsOf(_)
LimbsOf(n) == IF n = 0 THEN <<>> ELSE <<n % 1024>> \o LimbsOf(n \div 1024)

RECURSIVE ToInt(_)
ToInt(m) == IF m = <<>> THEN 0 ELSE m[1] + 1024 * ToInt(Tail(m))

RECURSIVE TimesSmall(_, _, _)
TimesSmall(m, k, carry) ==
    IF m = <<>> THEN LimbsOf(carry)
    ELSE <<(m[1] * k + carry) % 1024>>
         \o TimesSmall(Tail(m), k, (m[1] * k + carry) \div 1024)

RECURSIVE Inc(_)
Inc(m) ==
    IF m = <<>> THEN <<1>>
    ELSE IF m[1] < 1023 THEN <<m[1] + 1>> \o Tail(m)
    ELSE <<0>> \o Inc(Tail(m))

RECURSIVE Trim(_)
Trim(m) ==
    IF m = <<>> THEN <<>>
    ELSE IF m[Len(m)] = 0 THEN Trim(SubSeq(m, 1, Len(m) - 1))
    ELSE m

RECURSIVE BitLen(_)
BitLen(n) == IF n = 0 THEN 0 ELSE 1 + BitLen(n \div 2)

NumBits(m) == IF m = <<>> THEN 0 ELSE 10 * (Len(m) - 1) + BitLen(m[Len(m)])

\* bit i of m, bit 0 the least significant
Bit(m, i) ==
    IF (i \div 10) + 1 > Len(m) THEN 0
    ELSE (m[(i \div 10) + 1] \div (2 ^ (i % 10))) % 2

\* whether a bit of m below bit k is set
LowBitsSet(m, k) ==
    \E i \in 1..Len(m) :
        /\ 10 * (i - 1) < k
        /\ IF 10 * i <= k THEN m[i] # 0
           ELSE m[i] % (2 ^ (k - 10 * (i - 1))) # 0

\* m with its k low bits cut off
ShiftRight(m, k) ==
    LET q == k \div 10
        b == k % 10
    IN Trim([j \in 1..(Len(m) - q) |->
                (m[q + j] \div (2 ^ b))
                + (IF q + j + 1 <= Len(m)
                   THEN (m[q + j + 1] % (2 ^ b)) * (2 ^ (10 - b)) ELSE 0)])

\* Round half to even, dropping the k low bits of m.
DropLow(m, k) ==
    IF k <= 0 THEN m
    ELSE LET keep == ShiftRight(m, k)
             half == Bit(m, k - 1) = 1
             sticky == LowBitsSet(m, k - 1)
             odd == keep # <<>> /\ keep[1] % 2 = 1
         IN IF half /\ (sticky \/ odd) THEN Inc(keep) ELSE keep

\* The nearest float of an exact value.
RoundFloat(v) ==
    IF NumBits(Trim(v.m)) <= MantissaBits THEN [m |-> Trim(v.m), e |-> v.e]
    ELSE [m |-> DropLow(Trim(v.m), NumBits(Trim(v.m)) - MantissaBits),
          e |-> v.e + (NumBits(Trim(v.m)) - MantissaBits)]

RECURSIVE Quot(_, _, _, _)
\* n more base-1024 digits of the fraction r / t (r < t), and what remains
Quot(r, t, n, acc) ==
    IF n = 0 THEN [q |-> acc, r |-> r]
    ELSE Quot((r * 1024) % t, t, n - 1, <<(r * 1024) \div t>> \o acc)

RECURSIVE ShiftTo(_, _)
ShiftTo(a, t) == IF a >= t THEN 0 ELSE 1 + ShiftTo(2 * a, t)

FloatDivExact(a, b, n) ==
    LET frac == Quot(a % b, b, n, <<>>)
    IN [m |-> <<IF frac.r # 0 THEN 1 ELSE 0>> \o frac.q \o LimbsOf(a \div b),
        e |-> -(10 * (n + 1))]

\* a / b for two ints, b > 0: true division, correctly rounded
FloatDiv(a, b) ==
    IF a = 0 THEN [m |-> <<>>, e |-> 0]
    ELSE RoundFloat(FloatDivExact(a, b,
                        ((MantissaBits + 1 + ShiftTo(a, b)) \div 10) + 1))

\* f * k for a float f and a small int k
FloatTimes(f, k) == RoundFloat([m |-> TimesSmall(f.m, k, 0), e |-> f.e])

\* round(f, 2), given in hundredths: the decimal nearest the float's exact
\* value, ties to even
RoundHundredths(f) ==
    IF f.e >= 0 THEN ToInt(TimesSmall(f.m, 100, 0)) * (2 ^ f.e)
    ELSE ToInt(DropLow(TimesSmall(f.m, 100, 0), -f.e))

\* CHECK_DISPATCH.get(ctype, default): an unknown kind runs a default evaluator
DispatchLookupDefault(ctype) ==
    IF ctype \in DOMAIN CHECK_DISPATCH
    THEN [found |-> TRUE, level |-> CHECK_DISPATCH[ctype].level,
          fn |-> CHECK_DISPATCH[ctype].fn]
    ELSE [found |-> TRUE, level |-> "table", fn |-> "row_count_min"]

\* CHECK_DISPATCH[ctype]: the entry, or KeyError (found = FALSE)
DispatchLookup(ctype) ==
    IF ctype \in DOMAIN CHECK_DISPATCH
    THEN [found |-> TRUE, level |-> CHECK_DISPATCH[ctype].level,
          fn |-> CHECK_DISPATCH[ctype].fn]
    ELSE [found |-> FALSE, level |-> "", fn |-> ""]

(***************************************************************************)
(* run_table: one iteration of each of its two loops.                      *)
(***************************************************************************)
\* the body of "for tcheck in cfg.get('table_checks', [])"
EvalTableCheck(df, table, pk, tcheck) ==
    IF tcheck.type = "pk_not_null" THEN check_pk_not_null(df, table, pk)
    ELSE IF tcheck.type = "pk_unique" THEN check_pk_unique(df, table, pk)
    ELSE LET d == DispatchLookup(tcheck.type)
         IN IF ~d.found THEN Raise("KeyError")
            \* fn(df, table_name, tcheck) on a column evaluator lacks an argument
            ELSE IF d.level = "column" THEN Raise("TypeError")
            ELSE CallTable(d.fn, df, table, tcheck)

\* an evaluator that notes the time of its evaluation in details
EvalColumnCheckStamped(df, table, col, c, clock) ==
    LET d == DispatchLookup(c.type)
        out == IF ~d.found THEN Raise("KeyError")
               ELSE IF d.level = "column"
               THEN CallColumn(d.fn, df, table, col, c, clock)
               ELSE CallTable(d.fn, df, table, c)
    IN [out EXCEPT !.res.details.nums = <<clock>>]

\* the body of "for c in colcfg.get('checks', [])"
EvalColumnCheck(df, table, col, c, clock) ==
    LET d == DispatchLookup(c.type)
    IN IF ~d.found THEN Raise("KeyError")
       ELSE IF d.level = "column" THEN CallColumn(d.fn, df, table, col, c, clock)
       ELSE CallTable(d.fn, df, table, c)

AppendResultFront(results, res) == <<res>> \o results

\* results.append(res)
AppendResult(results, res) == Append(results, res)

(***************************************************************************)
(* build_summary                                                           *)
(***************************************************************************)
\* round((passed_checks / total_checks) * 100, 2) if total_checks else 0.0,
\* in hundredths
pass_rate(passed_checks, total_checks) ==
    IF total_checks # 0
    THEN RoundHundredths(FloatTimes(FloatDiv(passed_checks, total_checks), 100))
    ELSE 0

TableNames(all_results) == {all_results[i].table : i \in 1..Len(all_results)}

FirstSeen(all_results, tbl) ==
    CHOOSE i \in 1..Len(all_results) :
        /\ all_results[i].table = tbl
        /\ \A j \in 1..(i - 1) : all_results[j].table # tbl

RECURSIVE InFirstSeenOrder(_, _)
InFirstSeenOrder(all_results, names) ==
    IF names = {} THEN <<>>
    ELSE LET first == CHOOSE n \in names : \A o \in names :
                        FirstSeen(all_results, n) <= FirstSeen(all_results, o)
         IN <<first>> \o InFirstSeenOrder(all_results, names \ {first})

Counter(all_results, tbl) ==
    [name |-> tbl,
     total |-> Cardinality({i \in 1..Len(all_results) : all_results[i].table = tbl}),
     passed |-> Cardinality({i \in 1..Len(all_results) :
                    all_results[i].table = tbl /\ all_results[i].passed}),
     failed |-> Cardinality({i \in 1..Len(all_results) :
                    all_results[i].table = tbl /\ ~all_results[i].passed})]

CountersOf(all_results, names) ==
    [k \in 1..Len(names) |-> Counter(all_results, names[k])]

\* the dict `tables`, whose keys keep the order they were first inserted in
TableCounters(all_results) ==
    CountersOf(all_results, InFirstSeenOrder(all_results, TableNames(all_results)))

passed_checks(all_results) ==
    Cardinality({i \in 1..Len(all_results) : all_results[i].passed})

build_summary(all_results, clock) ==
    LET tables == TableCounters(all_results)
        total_checks == Len(all_results)
        passed == passed_checks(all_results)
        failed_checks == total_checks - passed
    IN [run_at |-> clock, tables |-> tables, total_tables |-> Len(tables),
        total_checks |-> total_checks, passed_checks |-> passed,
        failed_checks |-> failed_checks,
        pass_rate |-> pass_rate(passed, total_checks),
        checks |-> all_results]

NoSummary == build_summary(<<>>, 0)

(***************************************************************************)
(* Inputs: the checks, keys and snapshots the evaluators are applied to.   *)
(***************************************************************************)
Upper == {"A", "B", "C", "D", "E", "F", "G", "H", "I", "J", "K", "L", "M",
          "N", "O", "P", "Q", "R", "S", "T", "U", "V", "W", "X", "Y", "Z"}
TwoUpper == [atoms |-> <<Upper, Upper>>, end |-> FALSE]
ActiveOnly == [atoms |-> <<{"A"}, {"C"}, {"T"}, {"I"}, {"V"}, {"E"}>>, end |-> TRUE]

On(col, spec) == [col |-> col, spec |-> spec]

ColumnCheckPool ==
    { On("status", Chk("not_null")),
      On("ghost", Chk("not_null")),
      On("status", WithValues(Chk("in_set"), {S(ACTIVE), S(CLOSED)})),
      On("flag", WithValues(Chk("in_set"), {I(1)})),
      On("status", WithValues(Chk("in_set"), {S(ACTIVE), I(1)})),
      On("status", Chk("in_set")),
      On("status", WithPattern(Chk("regex"), TwoUpper)),
      On("status", WithPattern(Chk("regex"), ActiveOnly)),
      On("status", Chk("regex")),
      On("status", WithMax(WithMin(Chk("length_between"), 3), 6)),
      On("amount", Chk("length_between")),
      On("amount", Chk("numeric_min")),
      On("id", WithMin(Chk("numeric_min"), 7)),
      On("status", Chk("numeric_min")),
      On("amount", WithMax(Chk("numeric_max"), 5)),
      On("amount", Chk("numeric_max")),
      On("opened_at", Chk("timestamp_not_in_future")),
      On("flag", Chk("boolean")),
      On("amount", WithWhen(Chk("conditional_required"), "status", S(CLOSED), "amount")),
      On("amount", Chk("conditional_required")),
      On("flag", Chk("row_count_min")),
      On("id", Chk("pk_unique")),
      On("status", Chk("bogus")) }

TableCheckPool ==
    { Chk("row_count_min"), WithMin(Chk("row_count_min"), 2),
      WithMax(WithMin(Chk("row_count_between"), 1), 2), Chk("row_count_between"),
      Chk("pk_not_null"), Chk("pk_unique"), Chk("bogus"), Chk("not_null") }

PkPool == {<<"id">>, <<"id", "amount">>, <<"status">>, <<"nokey">>}

Repeat(r, n) == [i \in 1..n |-> r]

\* snapshots long enough for a failure set to pass the sample's cap
LongSnapshots ==
    {Repeat(r, SampleCap) : r \in RowPool}
    \cup {<<RowA>> \o Repeat(r, SampleCap + 1) : r \in RowPool}

Snapshots == SeqsUpTo(RowPool, MaxRows) \cup LongSnapshots

(***************************************************************************)
(* Table configurations of a batch.  "data" is what the table's load query *)
(* returns: the snapshot pd.read_sql hands to run_table.                   *)
(***************************************************************************)
Config(table, table_checks, columns, data) ==
    [table |-> table, pk |-> <<"id">>, table_checks |-> table_checks,
     columns |-> columns, data |-> data]

BatchTableCheckPool == {Chk("row_count_min"), Chk("pk_unique"), Chk("bogus")}

Col(col, checks) == [col |-> col, checks |-> checks]

ColumnsOptions ==
    { <<>>,
      <<Col("status", <<Chk("not_null"),
                        WithValues(Chk("in_set"), {S(ACTIVE), S(CLOSED)})>>),
        Col("opened_at", <<Chk("timestamp_not_in_future")>>)>>,
      <<Col("opened_at", <<Chk("timestamp_not_in_future")>>),
        Col("flag", <<Chk("boolean"), Chk("bogus")>>)>>,
      <<Col("amount", <<>>),
        Col("status", <<Chk("numeric_min"), Chk("not_null")>>)>>,
      <<Col("flag", <<Chk("row_count_min"), Chk("boolean")>>)>> }

DataOptions == {<<RowA, RowB, RowC>>, <<RowC>>}

FirstConfigs ==
    {Config("accounts", tcs, cols, data) :
        tcs \in SeqsUpTo(BatchTableCheckPool, MaxTableChecks),
        cols \in ColumnsOptions, data \in DataOptions}

SecondConfigs ==
    { Config("customers", <<Chk("row_count_min")>>,
             <<Col("opened_at", <<Chk("timestamp_not_in_future")>>)>>,
             <<RowB, RowE>>),
      Config("customers", <<Chk("pk_not_null")>>,
             <<Col("status", <<WithPattern(Chk("regex"), TwoUpper), Chk("regex")>>)>>,
             <<RowA>>) }

Batches ==
    {<<c>> : c \in FirstConfigs}
    \cup {<<c, d>> : c \in FirstConfigs, d \in SecondConfigs}

(***************************************************************************)
(* State.                                                                  *)
(***************************************************************************)
VARIABLES
    batch,        \* the configurations load_config_files yields, in order
    clock,        \* the wall clock (UTC), in seconds
    run,          \* which run of main this is
    pc,           \* where main is
    ti,           \* main: the table the loop of main is at
    df,           \* run_table: the snapshot read
    ci,           \* run_table: position in table_checks
    coli,         \* run_table: position in columns
    chki,         \* run_table: position in the column's checks
    results,      \* run_table: results
    all_results,  \* main: all_results
    summary,      \* main: summary
    written,      \* the artifacts this run has written
    err,          \* the exception that ended this run, or "none"
    prev,         \* how the previous run ended and what it accumulated
    ev            \* one evaluator applied to one snapshot

vars == <<batch, clock, run, pc, ti, df, ci, coli, chki, results,
          all_results, summary, written, err, prev, ev>>

runVars == <<batch, clock, run, pc, ti, df, ci, coli, chki, results,
             all_results, summary, written, err, prev>>

NoPrev == [pc |-> "none", results |-> <<>>, err |-> "none"]
EvIdle == [pc |-> "idle", df |-> <<>>, pk |-> <<>>, col |-> NoColumn,
           check |-> Chk(""), clock |-> 0, out |-> Raise("none")]

(***************************************************************************)
(* One evaluator on one snapshot.                                          *)
(***************************************************************************)
InitEval ==
    /\ batch = <<>> /\ clock = 1 /\ run = 1 /\ pc = "idle" /\ ti = 1
    /\ df = <<>> /\ ci = 1 /\ coli = 1 /\ chki = 1 /\ results = <<>>
    /\ all_results = <<>> /\ summary = NoSummary /\ written = {}
    /\ err = "none" /\ prev = NoPrev
    /\ \E d \in Snapshots : ev = [EvIdle EXCEPT !.pc = "ready", !.df = d]

EvalColumn ==
    /\ ev.pc = "ready"
    /\ \E cc \in ColumnCheckPool :
         \E now \in IF cc.spec.type = "timestamp_not_in_future"
                    THEN 1..MaxClock ELSE {1} :
            ev' = [ev EXCEPT !.pc = "done", !.col = cc.col, !.check = cc.spec,
                             !.clock = now,
                             !.out = EvalColumnCheck(ev.df, "accounts", cc.col,
                                                     cc.spec, now)]
    /\ UNCHANGED runVars

EvalTable ==
    /\ ev.pc = "ready"
    /\ \E tc \in TableCheckPool :
         \E pk \in IF tc.type \in PkKinds THEN PkPool ELSE {<<"id">>} :
            ev' = [ev EXCEPT !.pc = "done", !.pk = pk, !.check = tc,
                             !.out = EvalTableCheck(ev.df, "accounts", pk, tc)]
    /\ UNCHANGED runVars

NextEval == EvalColumn \/ EvalTable

SpecEval == InitEval /\ [][NextEval]_vars

(***************************************************************************)
(* Properties of the evaluators.                                           *)
(***************************************************************************)
EvReturned == ev.pc = "done" /\ ev.out.err = "none"
EvRes == ev.out.res
Min(a, b) == IF a < b THEN a ELSE b
Count(seq, x) == Cardinality({i \in 1..Len(seq) : seq[i] = x})

RowLevelKinds == PkKinds \cup ColumnKinds

\* C4: every CheckResult of pk_not_null, pk_unique or a column-scope evaluator
\* has passed exactly when its failed_count is 0.
C4_PassedIffNoFailures ==
    (EvReturned /\ EvRes.check_name \in RowLevelKinds)
        => (EvRes.passed <=> (EvRes.failed_count = 0))

C4_Witness ==
    /\ EvReturned
    /\ EvRes.check_name = "pk_unique"
    /\ ~EvRes.passed
    /\ EvRes.failed_count = 2

\* The frame of offending rows the evaluator of the state's check selects.
FailedOf ==
    LET kind == ev.check.type
        d == ev.df
        c == ev.col
        s == ev.check
    IN CASE kind \in TableKinds -> NoneDF
         [] kind = "pk_not_null" -> Frame(pk_not_null_failed(d, ev.pk))
         [] kind = "pk_unique" -> Frame(pk_unique_failed(d, ev.pk))
         [] kind = "not_null" -> Frame(not_null_failed(d, c))
         [] kind = "in_set" -> Frame(in_set_failed(d, c, s.values))
         [] kind = "regex" -> Frame(regex_failed(d, c, s.pattern))
         [] kind = "length_between" ->
               Frame(length_between_failed(d, c, GetMin(s, 0),
                        IF "max" \in s.keys THEN s.max ELSE 1000000))
         [] kind = "numeric_min" -> Frame(numeric_min_failed(d, c, GetMin(s, 0)))
         [] kind = "numeric_max" -> Frame(numeric_max_failed(d, c, s))
         [] kind = "timestamp_not_in_future" -> Frame(timestamp_failed(d, c, ev.clock))
         [] kind = "boolean" -> Frame(boolean_failed(d, c))
         [] kind = "conditional_required" -> Frame(conditional_required_failed(d, s))

\* C5: failed_count is the number of offending rows, and failed_sample is the
\* first min(failed_count, 100) of them in the evaluator's order.
C5_SampleIsCappedPrefix ==
    EvReturned =>
        /\ EvRes.failed_count = Len(FailedOf.rows)
        /\ Len(EvRes.failed_sample) = Min(EvRes.failed_count, 100)
        /\ EvRes.failed_sample =
              SubSeq(FailedOf.rows, 1, Min(EvRes.failed_count, 100))

C5_Witness ==
    /\ EvReturned
    /\ EvRes.failed_count = 101
    /\ Len(EvRes.failed_sample) = 100

\* C8 as claimed: the boolean check flags exactly the rows whose cell is
\* non-null and is not a boolean value (so 0, 1 and "true" are flagged).
C8_BooleanFlagsNonBooleans ==
    (EvReturned /\ ev.check.type = "boolean" /\ Len(ev.df) <= 100)
        => EvRes.failed_sample =
              SelectSeq(ev.df, LAMBDA r : notnull(r[ev.col]) /\ r[ev.col].k # "bool")

NullSkippingKinds == {"in_set", "regex", "length_between", "numeric_min",
                      "numeric_max", "timestamp_not_in_future", "boolean"}

\* C9: in_set, regex, length_between, numeric_min, numeric_max,
\* timestamp_not_in_future and boolean never flag a row whose cell is null,
\* while not_null flags only such rows; in_set flags "ACTIVE " with its
\* trailing space.
C9_NullNeverFlagged ==
    /\ (EvReturned /\ ev.check.type \in NullSkippingKinds) =>
          /\ \A i \in 1..Len(EvRes.failed_sample) :
                notnull(EvRes.failed_sample[i][ev.col])
          /\ EvRes.failed_count
                <= Cardinality({i \in 1..Len(ev.df) : notnull(ev.df[i][ev.col])})
    /\ (EvReturned /\ ev.check.type = "not_null") =>
          \A i \in 1..Len(EvRes.failed_sample) :
                isnull(EvRes.failed_sample[i][ev.col])
    /\ (EvReturned /\ ev.check.type = "in_set" /\ ev.col = "status"
        /\ ev.check.values = {S(ACTIVE), S(CLOSED)} /\ Len(ev.df) <= 100) =>
          \A i \in 1..Len(ev.df) :
                ev.df[i].status = S(ACTIVE \o <<" ">>)
                    => Count(EvRes.failed_sample, ev.df[i]) = Count(ev.df, ev.df[i])

C9_Witness ==
    /\ EvReturned
    /\ ev.check.type = "in_set" /\ ev.col = "status"
    /\ ev.df = <<RowB, RowC>>
    /\ EvRes.failed_count = 1
    /\ EvRes.failed_sample = <<RowB>>

\* the positions of the rows whose key tuple another row holds too
SharedKey(d, pk_cols) ==
    {i \in 1..Len(d) :
        \E j \in 1..Len(d) : j # i /\ KeyOf(d[j], pk_cols) = KeyOf(d[i], pk_cols)}

Init ==
    /\ batch \in Batches
    /\ clock = 1 /\ run = 1 /\ pc = "main" /\ ti = 1
    /\ df = <<>> /\ ci = 1 /\ coli = 1 /\ chki = 1 /\ results = <<>>
    /\ all_results = <<>> /\ summary = NoSummary /\ written = {}
    /\ err = "none" /\ prev = NoPrev
    /\ ev = EvIdle

cfg == batch[ti]

\* an exception nothing catches: it unwinds run_table and main
Swallowed == "main"

Propagate == "aborted"

\* run_table, up to its first loop: df = pd.read_sql(query, engine)
ReadSql ==
    /\ pc = "main" /\ ti <= Len(batch)
    /\ df' = cfg.data
    /\ results' = <<>>
    /\ ci' = 1 /\ coli' = 1 /\ chki' = 1
    /\ pc' = "table_checks"
    /\ UNCHANGED <<batch, clock, run, ti, all_results, summary, written, err,
                   prev, ev>>

\* pd.read_sql raises (the database is unreachable, the query is refused)
ReadSqlFails ==
    /\ pc = "main" /\ ti <= Len(batch)
    /\ err' = "DatabaseError"
    /\ pc' = Propagate
    /\ UNCHANGED <<batch, clock, run, ti, df, ci, coli, chki, results,
                   all_results, summary, written, prev, ev>>

\* one iteration of "for tcheck in cfg.get('table_checks', [])"
TableCheck ==
    /\ pc = "table_checks" /\ ci <= Len(cfg.table_checks)
    /\ LET out == EvalTableCheck(df, cfg.table, cfg.pk, cfg.table_checks[ci])
       IN IF out.err # "none"
          THEN /\ err' = out.err
               /\ pc' = Propagate
               /\ UNCHANGED <<results, ci>>
          ELSE /\ results' = AppendResult(results, out.res)
               /\ ci' = ci + 1
               /\ UNCHANGED <<err, pc>>
    /\ UNCHANGED <<batch, clock, run, ti, df, coli, chki, all_results, summary,
                   written, prev, ev>>

\* the first loop is exhausted: on to "for col, colcfg in ...items()"
TableChecksDone ==
    /\ pc = "table_checks" /\ ci > Len(cfg.table_checks)
    /\ pc' = "column_checks"
    /\ UNCHANGED <<batch, clock, run, ti, df, ci, coli, chki, results,
                   all_results, summary, written, err, prev, ev>>

\* one iteration of "for c in colcfg.get('checks', [])"
ColumnCheck ==
    /\ pc = "column_checks" /\ coli <= Len(cfg.columns)
    /\ chki <= Len(cfg.columns[coli].checks)
    /\ LET out == EvalColumnCheck(df, cfg.table, cfg.columns[coli].col,
                                  cfg.columns[coli].checks[chki], clock)
       IN IF out.err # "none"
          THEN /\ err' = out.err
               /\ pc' = Propagate
               /\ UNCHANGED <<results, chki>>
          ELSE /\ results' = AppendResult(results, out.res)
               /\ chki' = chki + 1
               /\ UNCHANGED <<err, pc>>
    /\ UNCHANGED <<batch, clock, run, ti, df, ci, coli, all_results, summary,
                   written, prev, ev>>

\* the column's checks are exhausted: the next column
NextColumn ==
    /\ pc = "column_checks" /\ coli <= Len(cfg.columns)
    /\ chki > Len(cfg.columns[coli].checks)
    /\ coli' = coli + 1 /\ chki' = 1
    /\ UNCHANGED <<batch, clock, run, pc, ti, df, ci, results, all_results,
                   summary, written, err, prev, ev>>

\* return results
ReturnResults ==
    /\ pc = "column_checks" /\ coli > Len(cfg.columns)
    /\ pc' = "return"
    /\ UNCHANGED <<batch, clock, run, ti, df, ci, coli, chki, results,
                   all_results, summary, written, err, prev, ev>>

\* all_results.extend(run_table(engine, cfg)), and the next configuration
ExtendAllResults ==
    /\ pc = "return"
    /\ all_results' = all_results \o results
    /\ ti' = ti + 1
    /\ pc' = "main"
    /\ UNCHANGED <<batch, clock, run, df, ci, coli, chki, results, summary,
                   written, err, prev, ev>>

\* summary = build_summary(all_results), once the configurations are exhausted
Summarise ==
    /\ pc = "main" /\ ti > Len(batch)
    /\ summary' = build_summary(all_results, clock)
    /\ pc' = "render"
    /\ UNCHANGED <<batch, clock, run, ti, df, ci, coli, chki, results,
                   all_results, written, err, prev, ev>>

\* the rendered report, written to report_<timestamp>.html
WriteReport ==
    /\ pc = "render"
    /\ written' = written \cup {"report"}
    /\ pc' = "dump"
    /\ UNCHANGED <<batch, clock, run, ti, df, ci, coli, chki, results,
                   all_results, summary, err, prev, ev>>

\* json.dump(summary, ...) to last_run_details.json
WriteDetails ==
    /\ pc = "dump"
    /\ written' = written \cup {"last_run_details"}
    /\ pc' = "done"
    /\ UNCHANGED <<batch, clock, run, ti, df, ci, coli, chki, results,
                   all_results, summary, err, prev, ev>>

\* time passes
Tick ==
    /\ clock < MaxClock
    /\ clock' = clock + 1
    /\ UNCHANGED <<batch, run, pc, ti, df, ci, coli, chki, results,
                   all_results, summary, written, err, prev, ev>>

\* the engine is run again, on the same configurations and snapshots
Rerun ==
    /\ pc \in {"done", "aborted"} /\ run < MaxRuns
    /\ prev' = [pc |-> pc, results |-> all_results, err |-> err]
    /\ run' = run + 1
    /\ pc' = "main" /\ ti' = 1
    /\ df' = <<>> /\ ci' = 1 /\ coli' = 1 /\ chki' = 1 /\ results' = <<>>
    /\ all_results' = <<>> /\ summary' = NoSummary /\ written' = {}
    /\ err' = "none"
    /\ UNCHANGED <<batch, clock, ev>>

Next ==
    \/ ReadSql \/ ReadSqlFails \/ TableCheck \/ TableChecksDone
    \/ ColumnCheck \/ NextColumn \/ ReturnResults \/ ExtendAllResults
    \/ Summarise \/ WriteReport \/ WriteDetails \/ Tick \/ Rerun

Spec == Init /\ [][Next]_vars

(***************************************************************************)
(* The aggregator on its own: build_summary on a sequence of results.      *)
(***************************************************************************)
PassedResult(tbl) ==
    _result(TRUE, "row_count_min", "table", tbl, NoColumn, NoDetails, NoneDF)
FailedResult(tbl) ==
    _result(FALSE, "not_null", "column", tbl, "status", NoDetails, Frame(<<RowC>>))

\* p passed and f failed results, of two tables
ResultsOf(p, f, passedFirst) ==
    [i \in 1..(p + f) |->
        LET tbl == IF 2 * i <= p + f THEN "accounts" ELSE "customers"
        IN IF (passedFirst /\ i <= p) \/ (~passedFirst /\ i > f)
           THEN PassedResult(tbl) ELSE FailedResult(tbl)]

InitSummary ==
    /\ batch = <<>> /\ clock = 1 /\ run = 1 /\ pc = "main" /\ ti = 1
    /\ df = <<>> /\ ci = 1 /\ coli = 1 /\ chki = 1 /\ results = <<>>
    /\ summary = NoSummary /\ written = {}
    /\ err = "none" /\ prev = NoPrev /\ ev = EvIdle
    /\ \E p \in 0..MaxChecks : \E f \in 0..(MaxChecks - p) :
         \E passedFirst \in BOOLEAN :
            all_results = ResultsOf(p, f, passedFirst)

NextSummary == Summarise

SpecSummary == InitSummary /\ [][NextSummary]_vars

(***************************************************************************)
(* Properties of the run.                                                  *)
(***************************************************************************)
RECURSIVE ColumnEntries(_)
\* the checks configured under the columns, column by column
ColumnEntries(columns) ==
    IF columns = <<>> THEN <<>>
    ELSE [i \in 1..Len(Head(columns).checks) |->
            [kind |-> Head(columns).checks[i].type, col |-> Head(columns).col]]
         \o ColumnEntries(Tail(columns))

Configured(c) ==
    [i \in 1..Len(c.table_checks) |->
        [kind |-> c.table_checks[i].type, col |-> NoColumn]]
    \o ColumnEntries(c.columns)

\* C1: run_table returns one result per configured check: the table checks in
\* configured order, then column by column each column's checks in order.
C1_ResultsInConfiguredOrder ==
    pc = "return" =>
        /\ Len(results) = Len(Configured(cfg))
        /\ \A i \in 1..Len(results) :
              /\ results[i].check_name = Configured(cfg)[i].kind
              /\ results[i].table = cfg.table
              /\ (results[i].level = "column"
                  /\ results[i].check_name # "conditional_required")
                    => results[i].column = Configured(cfg)[i].col

C1_Witness ==
    /\ pc = "return"
    /\ Len(cfg.table_checks) = 2 /\ Len(cfg.columns) = 2
    /\ cfg.table_checks[1].type = "row_count_min"
    /\ cfg.table_checks[2].type = "pk_unique"
    /\ Len(results) = 5
    /\ results[5].check_name = "timestamp_not_in_future"

UnknownKinds(c) ==
    LET entries == ColumnEntries(c.columns)
        tableKinds == {c.table_checks[i].type : i \in 1..Len(c.table_checks)}
        columnKinds == {entries[i].kind : i \in 1..Len(entries)}
    IN (tableKinds \ (TableKinds \cup ColumnKinds \cup PkKinds))
       \cup (columnKinds \ (TableKinds \cup ColumnKinds))

\* C2: run_table never returns from a configuration that holds a check of an
\* unregistered kind, under table_checks or under a column: it raises.
C2_UnknownKindRaises ==
    /\ pc = "return" => UnknownKinds(cfg) = {}
    /\ (pc \in {"table_checks", "column_checks", "return"}
        /\ UnknownKinds(cfg) # {})
          => \A i \in 1..Len(results) :
                results[i].check_name = Configured(cfg)[i].kind

C2_Witness ==
    /\ pc = "aborted" /\ err = "KeyError"
    /\ coli = 2 /\ chki = 2
    /\ cfg.columns[coli].checks[chki].type = "bogus"
    /\ Len(results) >= 2

\* C3: a run that raised has written no artifact and stays aborted; an
\* artifact is written only once every table has been evaluated without error.
C3_AllOrNothing ==
    /\ err # "none" => (pc = "aborted" /\ written = {})
    /\ pc = "aborted" => err # "none"
    /\ written # {} => (err = "none" /\ ti = Len(batch) + 1
                        /\ pc \in {"dump", "done"})

C3_Witness ==
    /\ pc = "aborted" /\ Len(batch) = 2 /\ ti = 2
    /\ err = "KeyError"
    /\ Len(all_results) >= 2
    /\ written = {}

TwoRunsDone == run >= 2 /\ pc = "done" /\ prev.pc = "done"

\* C7 as claimed: two runs on the same snapshots and configurations give the
\* same sequence of CheckResults.
C7_Idempotent == TwoRunsDone => all_results = prev.results

ClockFree(r) ==
    [r EXCEPT !.passed = TRUE, !.failed_count = 0, !.failed_sample = <<>>]

\* C7, amended: the two sequences agree on every result but those of
\* timestamp_not_in_future, which agree in all but passed, failed_count and
\* failed_sample.
C7_IdempotentButClock ==
    TwoRunsDone =>
        /\ Len(all_results) = Len(prev.results)
        /\ \A i \in 1..Len(all_results) :
              IF all_results[i].check_name = "timestamp_not_in_future"
              THEN ClockFree(all_results[i]) = ClockFree(prev.results[i])
              ELSE all_results[i] = prev.results[i]

C7_Witness ==
    /\ TwoRunsDone
    /\ Len(all_results) >= 3
    /\ \E i \in 1..Len(all_results) :
          /\ all_results[i].check_name = "timestamp_not_in_future"
          /\ prev.results[i].failed_count = 1
          /\ all_results[i].failed_count = 0
    /\ \E i \in 1..Len(all_results) :
          /\ all_results[i].check_name = "in_set"
          /\ all_results[i].failed_count = 1

\* C6 as claimed: total_checks = passed_checks + failed_checks, and pass_rate
\* is round(100 * passed_checks / total_checks, 2), or 0.0 for no results;
\* seven passed of ten give 70.0.
C6_AggregationLaw ==
    pc = "render" =>
        /\ summary.total_checks = Len(all_results)
        /\ summary.total_checks = summary.passed_checks + summary.failed_checks
        /\ IF summary.total_checks > 0
           THEN summary.pass_rate =
                    RoundHundredths(FloatDiv(100 * summary.passed_checks,
                                             summary.total_checks))
           ELSE summary.pass_rate = 0
        /\ (summary.total_checks = 10 /\ summary.passed_checks = 7)
              => summary.pass_rate = 7000

====
